---- MODULE Spec2Model ----
(***************************************************************************)
(* Infix -> Reverse Polish Notation calculator (src/src/main.rs).          *)
(*                                                                         *)
(* process(line) runs three stages over one input line:                    *)
(*   tokerize        the regex driven lexer,                               *)
(*   convert_to_rpn  Dijkstra's shunting yard,                             *)
(*   calc_and_print  the RPN evaluator, which also prints the RPN form.    *)
(* main() calls process once per line, in a loop.                          *)
(*                                                                         *)
(* Strings are sequences of one-character strings.  A token is a record    *)
(* [type, value], the tuple (TokenType, String) of the source.             *)
(***************************************************************************)
EXTENDS Integers, Sequences, FiniteSets, TLC

VARIABLES
    pc,               \* position of the program: idle, tokerize, convert, calc, done, panic
    overflow_checks,  \* build profile: TRUE = arithmetic overflow checks are compiled in (debug)
    input,            \* the line handed to process
    target_string,    \* tokerize: the unconsumed remainder
    tokens,           \* tokerize: the tokens pushed so far
    error,            \* tokerize: the "no progress" flag
    token_list,       \* convert_to_rpn: the tokens not yet visited by the for loop
    stack,            \* convert_to_rpn: operator / parenthesis stack (top = last element)
    output,           \* the RPN queue (front = first element)
    calculate_stack,  \* calc_and_print: operand stack (top = last element)
    printed,          \* what has been written to stdout while processing this line
    outcome,          \* what process returned for this line
    saved             \* an earlier call of this run: its input, outcome and stdout

vars == << pc, overflow_checks, input, target_string, tokens, error, token_list,
           stack, output, calculate_stack, printed, outcome, saved >>

-----------------------------------------------------------------------------
(* Bounds of the model. *)

\* longest input line, in characters, of the unrestricted specification
MaxLen == 4
\* most operands of a generated operator chain "a op b op c ..."
MaxOperands == 3
\* longest input line of the repeated-call specification
MaxIdemLen == 2
\* largest magnitude, in hundredths, the evaluator's values are followed to
MaxMagnitude == 819200
\* longest input line of the specification with fairness
MaxFairLen == 3

-----------------------------------------------------------------------------
(* Characters. *)

Digits == {"0", "1", "2", "3", "4", "5", "6", "7", "8", "9"}

Letters == {"a", "b", "c", "d", "e", "f", "g", "h", "i", "j", "k", "l", "m",
            "n", "o", "p", "q", "r", "s", "t", "u", "v", "w", "x", "y", "z",
            "A", "B", "C", "D", "E", "F", "G", "H", "I", "J", "K", "L", "M",
            "N", "O", "P", "Q", "R", "S", "T", "U", "V", "W", "X", "Y", "Z"}

\* the characters \s and str::trim treat as white space
WhiteSpace == {" ", "\t", "\n", "\r"}

Drop(s, n) == SubSeq(s, n + 1, Len(s))

IsPrefix(p, s) == Len(p) <= Len(s) /\ SubSeq(s, 1, Len(p)) = p

\* length of the longest prefix of s made of characters of S (a greedy S+)
PrefixLen(s, S) ==
    CHOOSE n \in 0..Len(s) :
        /\ \A i \in 1..n : s[i] \in S
        /\ (n = Len(s) \/ s[n + 1] \notin S)

\* length of the longest suffix of s made of characters of S
SuffixLen(s, S) ==
    CHOOSE n \in 0..Len(s) :
        /\ \A i \in (Len(s) - n + 1)..Len(s) : s[i] \in S
        /\ (n = Len(s) \/ s[Len(s) - n] \notin S)

RECURSIVE RemoveChar(_, _)
\* str::replace(c, "")
RemoveChar(s, c) ==
    IF s = << >> THEN << >>
    ELSE IF Head(s) = c THEN RemoveChar(Tail(s), c)
         ELSE << Head(s) >> \o RemoveChar(Tail(s), c)

\* input.trim().replace(" ", "")
Trimmed(s) ==
    LET a == PrefixLen(s, WhiteSpace)
        b == SuffixLen(s, WhiteSpace)
    IN  IF a = Len(s) THEN << >>
        ELSE RemoveChar(SubSeq(s, a + 1, Len(s) - b), " ")

\* str::find(ch): byte offset of the first occurrence
Find(s, ch) == (CHOOSE i \in 1..Len(s) : s[i] = ch /\ \A j \in 1..(i - 1) : s[j] # ch) - 1

-----------------------------------------------------------------------------
(* The operator table. *)

POS == << "P", "O", "S" >>
NEG == << "N", "E", "G" >>

KNOWNS_OPERATORS ==
    << [sym |-> POS,          order |-> 1, assoc |-> "RightAssociatoin"],
       [sym |-> NEG,          order |-> 1, assoc |-> "RightAssociatoin"],
       [sym |-> << "/" >>,    order |-> 2, assoc |-> "LeftAssociation"],
       [sym |-> << "*" >>,    order |-> 2, assoc |-> "LeftAssociation"],
       [sym |-> << "%" >>,    order |-> 2, assoc |-> "LeftAssociation"],
       [sym |-> << "+" >>,    order |-> 3, assoc |-> "LeftAssociation"],
       [sym |-> << "-" >>,    order |-> 3, assoc |-> "LeftAssociation"],
       [sym |-> << "<", "<" >>, order |-> 4, assoc |-> "LeftAssociation"],
       [sym |-> << ">", ">" >>, order |-> 4, assoc |-> "LeftAssociation"] >>

None == [some |-> FALSE]

\* Option<(OperatorOrder, OperatorAssociation)>: the first row whose symbol is op
get_op_info(op) ==
    LET rows == { i \in 1..Len(KNOWNS_OPERATORS) : KNOWNS_OPERATORS[i].sym = op }
    IN  IF rows = {} THEN None
        ELSE LET i == CHOOSE r \in rows : \A q \in rows : r <= q
             IN  [some |-> TRUE, order |-> KNOWNS_OPERATORS[i].order,
                  assoc |-> KNOWNS_OPERATORS[i].assoc]

\* a faulty variant: the comparison of the ranks turned around
need_op_pop_from_stack_reversed(op1, op2) ==
    LET i1 == get_op_info(op1)
        i2 == get_op_info(op2)
    IN  \/ i2.order > i1.order
        \/ (i2.order = i1.order /\ i1.assoc = "LeftAssociation")

\* both operators are in the table wherever this is used (see ConvertStep)
need_op_pop_from_stack(op1, op2) ==
    LET i1 == get_op_info(op1)
        i2 == get_op_info(op2)
    IN  \/ i2.order < i1.order
        \/ (i2.order = i1.order /\ i1.assoc = "LeftAssociation")

-----------------------------------------------------------------------------
(* The token patterns.  Each Match operator gives captures[0], the text    *)
(* the regex matches in s, or << >> when the regex does not match.         *)

MatchOpened(s) == IF s # << >> /\ s[1] = "(" THEN << "(" >> ELSE << >>

MatchClosed(s) == IF s # << >> /\ s[1] = ")" THEN << ")" >> ELSE << >>

MatchFunction(s) == SubSeq(s, 1, PrefixLen(s, Letters))

\* ^([\+\-/\*]{1,1})|(<{2,2})|(>{2,2}): only the first alternative is
\* anchored, so "<<" and ">>" are found anywhere in s; the match is the
\* leftmost one.
MatchBinary(s) ==
    LET shifts == { i \in 1..(Len(s) - 1) : s[i] = s[i + 1] /\ s[i] \in {"<", ">"} }
    IN  IF s # << >> /\ s[1] \in {"+", "-", "/", "*"} THEN << s[1] >>
        ELSE IF shifts = {} THEN << >>
        ELSE LET i == CHOOSE k \in shifts : \A q \in shifts : k <= q
             IN  << s[i], s[i + 1] >>

MatchUnary(s) == IF s # << >> /\ s[1] \in {"+", "-"} THEN << s[1] >> ELSE << >>

\* ^(\d+\.\d+)
MatchFloat(s) ==
    LET n == PrefixLen(s, Digits)
    IN  IF n >= 1 /\ Len(s) >= n + 2 /\ s[n + 1] = "." /\ s[n + 2] \in Digits
        THEN SubSeq(s, 1, n + 1 + PrefixLen(Drop(s, n + 1), Digits))
        ELSE << >>

MatchInt(s) == SubSeq(s, 1, PrefixLen(s, Digits))

MatchSeparator(s) == IF s # << >> /\ s[1] = "," THEN << "," >> ELSE << >>

MatchWhitespaces(s) == SubSeq(s, 1, PrefixLen(s, WhiteSpace))

\* the token types in the order of the pattern list
KNOWNS_TOKENS ==
    << "OpenedParenthesis", "ClosedParenthesis", "Function", "BinaryOperator",
       "UnaryOperator", "NumberFloat", "NumberInt", "ArgumentSeparator", "Whitespaces" >>

\* rgx.captures(target_string) for the pattern of the given type
Captures(type, s) ==
    CASE type = "OpenedParenthesis" -> MatchOpened(s)
      [] type = "ClosedParenthesis" -> MatchClosed(s)
      [] type = "Function"          -> MatchFunction(s)
      [] type = "BinaryOperator"    -> MatchBinary(s)
      [] type = "UnaryOperator"     -> MatchUnary(s)
      [] type = "NumberFloat"       -> MatchFloat(s)
      [] type = "NumberInt"         -> MatchInt(s)
      [] type = "ArgumentSeparator" -> MatchSeparator(s)
      [] type = "Whitespaces"       -> MatchWhitespaces(s)

\* a faulty variant: a closing parenthesis no longer allows a binary operator
permissible_tokens_no_paren == {"NumberFloat", "NumberInt"}

permissible_tokens == {"NumberFloat", "NumberInt", "ClosedParenthesis"}

\* the rewrite of a unary operator's text
UnaryName(value) ==
    CASE value = << "+" >> -> POS
      [] value = << "-" >> -> NEG
      [] OTHER -> << >>

RECURSIVE ScanPatterns(_, _, _)
\* The for loop over KNOWNS_TOKENS of one pass of tokerize's while loop,
\* from pattern i on: a match does not end the loop, the later patterns are
\* tried on what is left.  strip_prefix(..).unwrap() panics when the match is
\* not at the start of the remainder.
ScanPatterns(i, toks, target) ==
    IF i > Len(KNOWNS_TOKENS)
    THEN [tokens |-> toks, target |-> target, panic |-> FALSE]
    ELSE LET type == KNOWNS_TOKENS[i]
             captions == Captures(type, target)
             value == IF type = "UnaryOperator" THEN UnaryName(captions) ELSE captions
             pushed == Append(toks, [type |-> type, value |-> value])
         IN  IF captions = << >>
             THEN ScanPatterns(i + 1, toks, target)
             ELSE IF /\ type = "BinaryOperator"
                     /\ (toks = << >> \/ toks[Len(toks)].type \notin permissible_tokens)
             THEN ScanPatterns(i + 1, toks, target)
             ELSE IF ~IsPrefix(captions, target)
             THEN [tokens |-> pushed, target |-> target, panic |-> TRUE]
             ELSE ScanPatterns(i + 1, pushed, Drop(target, Len(captions)))

-----------------------------------------------------------------------------
(* Numbers.  An f32 is followed as a sign and a magnitude in hundredths    *)
(* (every computed value is printed with two decimals and parsed back), or *)
(* as an infinity or NaN.  Sums and differences of such values are exact   *)
(* after the rounding of the two-decimal print; a product or quotient is   *)
(* the exact one rounded to two decimals, half to even.  A value whose     *)
(* magnitude exceeds MaxMagnitude is not followed (big).                   *)

I32Max == 2147483647
I32Bits == 32

Fin(neg, m) == [k |-> "fin", neg |-> neg, m |-> m]
Inf(neg) == [k |-> "inf", neg |-> neg, m |-> 0]
NaN == [k |-> "nan", neg |-> FALSE, m |-> 0]

DigitVal(c) ==
    CASE c = "0" -> 0 [] c = "1" -> 1 [] c = "2" -> 2 [] c = "3" -> 3 [] c = "4" -> 4
      [] c = "5" -> 5 [] c = "6" -> 6 [] c = "7" -> 7 [] c = "8" -> 8 [] c = "9" -> 9

DigitChar(d) == CHOOSE c \in Digits : DigitVal(c) = d

RECURSIVE DigitsToNat(_)
DigitsToNat(s) ==
    IF s = << >> THEN 0
    ELSE 10 * DigitsToNat(SubSeq(s, 1, Len(s) - 1)) + DigitVal(s[Len(s)])

RECURSIVE NatToDigits(_)
NatToDigits(n) ==
    IF n < 10 THEN << DigitChar(n) >>
    ELSE Append(NatToDigits(n \div 10), DigitChar(n % 10))

\* the lexemes str::parse::<f32> is followed on: [-]digits[.d[d]], inf, -inf, NaN
Representable(lexeme) ==
    LET body == IF lexeme # << >> /\ Head(lexeme) = "-" THEN Tail(lexeme) ELSE lexeme
        n == PrefixLen(body, Digits)
    IN  IF body \in { << "i", "n", "f" >>, << "N", "a", "N" >> } THEN TRUE
        ELSE IF n < 1 \/ n > 7 THEN FALSE
        ELSE IF n = Len(body) THEN TRUE
        ELSE /\ body[n + 1] = "."
             /\ Len(body) \in {n + 2, n + 3}
             /\ \A i \in (n + 2)..Len(body) : body[i] \in Digits

\* lexeme.parse::<f32>().unwrap()
ParseF32(lexeme) ==
    LET neg == lexeme # << >> /\ Head(lexeme) = "-"
        body == IF neg THEN Tail(lexeme) ELSE lexeme
        n == PrefixLen(body, Digits)
        frac == Drop(body, n + 1)
        hundredths == IF frac = << >> THEN 0
                      ELSE IF Len(frac) = 1 THEN 10 * DigitVal(frac[1])
                      ELSE 10 * DigitVal(frac[1]) + DigitVal(frac[2])
    IN  IF body = << "i", "n", "f" >> THEN Inf(neg)
        ELSE IF body = << "N", "a", "N" >> THEN NaN
        ELSE Fin(neg, 100 * DigitsToNat(SubSeq(body, 1, n)) + hundredths)

\* format!("{0:.2}", v)
FormatF32(v) ==
    IF v.k = "nan" THEN << "N", "a", "N" >>
    ELSE (IF v.neg THEN << "-" >> ELSE << >>) \o
         (IF v.k = "inf" THEN << "i", "n", "f" >>
          ELSE NatToDigits(v.m \div 100) \o << "." >> \o
               << DigitChar((v.m % 100) \div 10), DigitChar(v.m % 10) >>)

\* n / d rounded to the nearest integer, half to even (n >= 0, d > 0)
RoundDiv(n, d) ==
    LET q == n \div d
        r == n % d
    IN  IF 2 * r > d \/ (2 * r = d /\ q % 2 = 1) THEN q + 1 ELSE q

Big == [k |-> "big", neg |-> FALSE, m |-> 0]

Negate(a) == IF a.k = "nan" THEN NaN ELSE [a EXCEPT !.neg = ~a.neg]

Signed(a) == IF a.neg THEN -a.m ELSE a.m

\* arg1 + arg2
AddF32(a, b) ==
    IF a.k = "nan" \/ b.k = "nan" THEN NaN
    ELSE IF a.k = "inf" /\ b.k = "inf" THEN (IF a.neg = b.neg THEN a ELSE NaN)
    ELSE IF a.k = "inf" THEN a
    ELSE IF b.k = "inf" THEN b
    ELSE LET s == Signed(a) + Signed(b)
         IN  IF s = 0 THEN Fin(a.neg /\ b.neg, 0)
             ELSE IF s < 0 THEN (IF -s > MaxMagnitude THEN Big ELSE Fin(TRUE, -s))
             ELSE IF s > MaxMagnitude THEN Big ELSE Fin(FALSE, s)

\* arg1 - arg2
SubF32(a, b) == AddF32(a, Negate(b))

\* arg1 * arg2
MulF32(a, b) ==
    LET neg == (a.neg # b.neg)
    IN  IF a.k = "nan" \/ b.k = "nan" THEN NaN
        ELSE IF a.k = "inf" \/ b.k = "inf"
        THEN (IF (a.k = "fin" /\ a.m = 0) \/ (b.k = "fin" /\ b.m = 0) THEN NaN ELSE Inf(neg))
        ELSE IF a.m = 0 \/ b.m = 0 THEN Fin(neg, 0)
        ELSE IF b.m > (100 * MaxMagnitude + 50) \div a.m THEN Big
        ELSE LET m == RoundDiv(a.m * b.m, 100)
             IN  IF m > MaxMagnitude THEN Big ELSE Fin(neg, m)

\* arg1 / arg2: IEEE division, no error on a zero divisor
DivF32(a, b) ==
    LET neg == (a.neg # b.neg)
    IN  IF a.k = "nan" \/ b.k = "nan" THEN NaN
        ELSE IF a.k = "inf" THEN (IF b.k = "inf" THEN NaN ELSE Inf(neg))
        ELSE IF b.k = "inf" THEN Fin(neg, 0)
        ELSE IF b.m = 0 THEN (IF a.m = 0 THEN NaN ELSE Inf(neg))
        ELSE LET m == RoundDiv(100 * a.m, b.m)
             IN  IF m > MaxMagnitude THEN Big ELSE Fin(neg, m)

\* v as i32: truncation toward zero, saturating, NaN to 0
AsI32(v) ==
    IF v.k = "nan" THEN 0
    ELSE IF v.k = "inf" THEN (IF v.neg THEN -I32Max - 1 ELSE I32Max)
    ELSE IF v.neg THEN -(v.m \div 100) ELSE v.m \div 100

\* i as f32, for the integers the model follows (all below 2^24, so exact)
AsF32(i) ==
    IF i > MaxMagnitude \div 100 \/ i < -(MaxMagnitude \div 100) THEN Big
    ELSE IF i < 0 THEN Fin(TRUE, 100 * (-i)) ELSE Fin(FALSE, 100 * i)

\* the powers of two that fit an i32
Pow2F[n \in 0..(I32Bits - 2)] == IF n = 0 THEN 1 ELSE 2 * Pow2F[n - 1]

Pow2(n) == Pow2F[n]

\* the wrapping i32 shift left by s in 1..31: the low 32 - s bits of x move up
Shl32(x, s) ==
    LET w == I32Bits - s
        low == IF w = I32Bits - 1
               THEN (IF x >= 0 THEN x ELSE (x + I32Max) + 1)
               ELSE x % Pow2(w)
        half == Pow2(w - 1)
    IN  IF s = I32Bits - 1 THEN (IF x % 2 = 1 THEN -I32Max - 1 ELSE 0)
        ELSE IF low >= half THEN ((low - half) - half) * Pow2(s)
        ELSE low * Pow2(s)

\* the arithmetic i32 shift right by s in 1..31
Shr32(x, s) ==
    IF s = I32Bits - 1 THEN (IF x < 0 THEN -1 ELSE 0) ELSE x \div Pow2(s)

\* a shift amount outside 0..31 is an arithmetic overflow
ShiftOverflows(b) == AsI32(b) < 0 \/ AsI32(b) >= I32Bits

\* ((arg1 as i32) << (arg2 as i32)) as f32, with the amount masked to 5 bits
\* as a build without overflow checks does
ShlF32(a, b) ==
    LET s == AsI32(b) % I32Bits
    IN  AsF32(IF s = 0 THEN AsI32(a) ELSE Shl32(AsI32(a), s))

\* ((arg1 as i32) >> (arg2 as i32)) as f32
ShrF32(a, b) ==
    LET s == AsI32(b) % I32Bits
    IN  AsF32(IF s = 0 THEN AsI32(a) ELSE Shr32(AsI32(a), s))

\* The result: [panic, big, text].  text is the String the function returns.
calc_binary_operator(op, arg1, arg2) ==
    LET a == ParseF32(arg1.value)
        b == ParseF32(arg2.value)
        shift == op \in { << "<", "<" >>, << ">", ">" >> }
        v == CASE op = << "+" >> -> AddF32(a, b)
               [] op = << "-" >> -> SubF32(a, b)
               [] op = << "/" >> -> DivF32(a, b)
               [] op = << "*" >> -> MulF32(a, b)
               [] op = << "<", "<" >> -> ShlF32(a, b)
               [] op = << ">", ">" >> -> ShrF32(a, b)
               [] OTHER -> NaN
    IN  IF shift /\ overflow_checks /\ ShiftOverflows(b)
        THEN [panic |-> TRUE, big |-> FALSE, text |-> << >>]
        ELSE IF ~shift /\ op \notin { << "+" >>, << "-" >>, << "/" >>, << "*" >> }
        THEN [panic |-> FALSE, big |-> FALSE, text |-> << >>]
        ELSE [panic |-> FALSE, big |-> v.k = "big",
              text |-> IF v.k = "big" THEN << >> ELSE FormatF32(v)]

\* The String the function returns.
calc_unary_operator(op, arg) ==
    LET a == ParseF32(arg.value)
    IN  CASE op = POS -> FormatF32(a)
          [] op = NEG -> FormatF32(MulF32(Fin(TRUE, 100), a))
          [] OTHER -> << >>

-----------------------------------------------------------------------------
(* Stack<T> and Queue<T> of the crate's library: LIFO and FIFO containers. *)

StackPush(s, x) == Append(s, x)
StackPeek(s) == s[Len(s)]
StackPop(s) == SubSeq(s, 1, Len(s) - 1)
QueueEnqueue(q, x) == Append(q, x)
QueueFront(q) == Head(q)
QueueDequeue(q) == Tail(q)

-----------------------------------------------------------------------------
(* What process returns.  ok: Ok or Err; at: the return statement taken;   *)
(* msg: the text of an Err; text: the result of an Ok, or the offending    *)
(* character of a lexer error; col: the column the caret is put at.        *)

MsgUnknownLexeme == "neizvestnaya leksema!"
MsgSeparator == "v vyrazhenii propushchen razdelitel argumentov funkcii (zapyataya), libo propushchena otkryvayushchaya skobka"
\* a variant: the end-of-input failure with a message of its own
MsgOpenedLeft_distinct == "v vyrazhenii propushchena zakryvayushchaya skobka"
\* line 194, a closing parenthesis without an opening one
MsgClosedUnmatched == "v vyrazhenii propushchena skobka"
\* line 215, an opening parenthesis left on the stack at the end of input
MsgOpenedLeft == "v vyrazhenii propushchena skobka"
MsgQueue == "Vyhodnaya ochered sformirovana nepravilno"
MsgEmpty == ""
\* line 205
WarnLine == << "A vot takogo byt ne dolzhno" >>

NoOutcome == [ok |-> FALSE, at |-> "none", msg |-> "", text |-> << >>, col |-> 0]

Err(at, msg) == [ok |-> FALSE, at |-> at, msg |-> msg, text |-> << >>, col |-> 0]

Ok(text) == [ok |-> TRUE, at |-> "result", msg |-> "", text |-> text, col |-> 0]

-----------------------------------------------------------------------------
(* process, lines 302-324, and tokerize, lines 86-130. *)

\* a faulty variant: tokerize keeps the tokens of the line before
FreshTokens_stale(old) == old

\* let mut tokens : Vec<Token> = Vec::new()
FreshTokens(old) == << >>

\* The call process(&input): the locals of the three stages are created.
process_call(line) ==
    /\ pc \in {"idle", "done"}
    /\ pc' = "tokerize"
    /\ input' = line
    /\ target_string' = Trimmed(line)
    /\ tokens' = FreshTokens(tokens)
    /\ error' = FALSE
    /\ token_list' = << >>
    /\ stack' = << >>
    /\ output' = << >>
    /\ calculate_stack' = << >>
    /\ printed' = << >>
    /\ outcome' = NoOutcome
    /\ UNCHANGED overflow_checks

\* a faulty variant: the pass without line 122, the flag is never set
tokerize_pass_no_flag ==
    /\ pc = "tokerize"
    /\ target_string # << >> /\ ~error
    /\ LET r == ScanPatterns(1, tokens, target_string)
       IN  /\ tokens' = r.tokens
           /\ target_string' = r.target
           /\ pc' = IF r.panic THEN "panic" ELSE "tokerize"
           /\ UNCHANGED error
    /\ UNCHANGED << overflow_checks, input, token_list, stack, output, calculate_stack,
                    printed, outcome, saved >>

\* One pass of the while loop of tokerize.
tokerize_pass ==
    /\ pc = "tokerize"
    /\ target_string # << >> /\ ~error
    /\ LET r == ScanPatterns(1, tokens, target_string)
       IN  /\ tokens' = r.tokens
           /\ target_string' = r.target
           /\ IF r.panic
              THEN pc' = "panic" /\ UNCHANGED error
              ELSE pc' = "tokerize" /\ error' = (Len(target_string) = Len(r.target))
    /\ UNCHANGED << overflow_checks, input, token_list, stack, output, calculate_stack,
                    printed, outcome, saved >>

\* The while loop has ended: tokerize returns, and process either returns the
\* lexer's error or hands the tokens to convert_to_rpn.
tokerize_return ==
    /\ pc = "tokerize"
    /\ target_string = << >> \/ error
    /\ IF error
       THEN LET why == Head(target_string)
            IN  IF \E i \in 1..Len(input) : input[i] = why
                THEN /\ pc' = "done"
                     /\ outcome' = [ok |-> FALSE, at |-> "tokerize", msg |-> MsgUnknownLexeme,
                                    text |-> << why >>, col |-> Find(input, why)]
                     /\ UNCHANGED token_list
                ELSE pc' = "panic" /\ UNCHANGED << outcome, token_list >>
       ELSE /\ pc' = "convert"
            /\ token_list' = tokens
            /\ UNCHANGED outcome
    /\ UNCHANGED << overflow_checks, input, target_string, tokens, error, stack, output,
                    calculate_stack, printed, saved >>

-----------------------------------------------------------------------------
(* convert_to_rpn, lines 134-225. *)

RECURSIVE PopToOpened_dropping(_, _)
\* a faulty variant: the operators popped are not put into the queue
PopToOpened_dropping(st, out) ==
    IF st # << >> /\ StackPeek(st).type # "OpenedParenthesis"
    THEN PopToOpened_dropping(StackPop(st), out)
    ELSE [stack |-> st, output |-> out]

RECURSIVE PopToOpened(_, _)
\* while !stack.is_empty() && stack.peek().0 != OpenedParenthesis { output.enqueue(stack.pop()) }
PopToOpened(st, out) ==
    IF st # << >> /\ StackPeek(st).type # "OpenedParenthesis"
    THEN PopToOpened(StackPop(st), QueueEnqueue(out, StackPeek(st)))
    ELSE [stack |-> st, output |-> out]

RECURSIVE PopOperators(_, _, _)
\* the while loop of lines 168-175 for the operator op1
PopOperators(op1, st, out) ==
    IF /\ st # << >>
       /\ StackPeek(st).type = "BinaryOperator"
       /\ need_op_pop_from_stack(op1, StackPeek(st).value)
    THEN PopOperators(op1, StackPop(st), QueueEnqueue(out, StackPeek(st)))
    ELSE [stack |-> st, output |-> out]

\* need_op_pop_from_stack unwraps get_op_info of both operators
OperatorsKnown(op1, st) ==
    /\ get_op_info(op1).some
    /\ \A i \in 1..Len(st) : st[i].type = "BinaryOperator" => get_op_info(st[i].value).some

RECURSIVE DrainStack(_, _)
\* the loop of lines 211-222
DrainStack(st, out) ==
    IF st = << >> THEN [failed |-> FALSE, stack |-> st, output |-> out]
    ELSE IF StackPeek(st).type = "OpenedParenthesis"
    THEN [failed |-> TRUE, stack |-> st, output |-> out]
    ELSE DrainStack(StackPop(st), QueueEnqueue(out, StackPeek(st)))

\* One iteration of "for tok in token_list".
convert_step ==
    /\ pc = "convert"
    /\ token_list # << >>
    /\ LET tok == Head(token_list)
           toOpened == PopToOpened(stack, output)
           popped == PopOperators(tok.value, stack, output)
       IN  /\ token_list' = Tail(token_list)
           /\ CASE tok.type \in {"NumberInt", "NumberFloat"} ->
                     /\ output' = QueueEnqueue(output, tok)
                     /\ pc' = "convert"
                     /\ UNCHANGED << stack, outcome, printed >>
                [] tok.type \in {"Function", "OpenedParenthesis"} ->
                     /\ stack' = StackPush(stack, tok)
                     /\ pc' = "convert"
                     /\ UNCHANGED << output, outcome, printed >>
                [] tok.type = "ArgumentSeparator" ->
                     /\ stack' = toOpened.stack
                     /\ output' = toOpened.output
                     /\ IF toOpened.stack = << >>
                        THEN pc' = "done" /\ outcome' = Err("separator", MsgSeparator)
                        ELSE pc' = "convert" /\ UNCHANGED outcome
                     /\ UNCHANGED printed
                [] tok.type \in {"BinaryOperator", "UnaryOperator"} ->
                     IF OperatorsKnown(tok.value, stack)
                     THEN /\ stack' = StackPush(popped.stack, tok)
                          /\ output' = popped.output
                          /\ pc' = "convert"
                          /\ UNCHANGED << outcome, printed >>
                     ELSE pc' = "panic" /\ UNCHANGED << stack, output, outcome, printed >>
                [] tok.type = "ClosedParenthesis" ->
                     IF toOpened.stack = << >>
                     THEN /\ stack' = toOpened.stack
                          /\ output' = toOpened.output
                          /\ pc' = "done"
                          /\ outcome' = Err("closed", MsgClosedUnmatched)
                          /\ UNCHANGED printed
                     ELSE LET rest == StackPop(toOpened.stack)
                              isFn == rest # << >> /\ StackPeek(rest).type = "Function"
                          IN  /\ stack' = IF isFn THEN StackPop(rest) ELSE rest
                              /\ output' = IF isFn
                                           THEN QueueEnqueue(toOpened.output, StackPeek(rest))
                                           ELSE toOpened.output
                              /\ pc' = "convert"
                              /\ UNCHANGED << outcome, printed >>
                [] tok.type = "Whitespaces" ->
                     /\ printed' = Append(printed, WarnLine)
                     /\ pc' = "convert"
                     /\ UNCHANGED << stack, output, outcome >>
    /\ UNCHANGED << overflow_checks, input, target_string, tokens, error, calculate_stack,
                    saved >>

\* a faulty variant: the evaluator is started whatever the drain found
convert_return_unchecked ==
    /\ pc = "convert"
    /\ token_list = << >>
    /\ LET d == DrainStack(stack, output)
       IN  /\ stack' = d.stack
           /\ output' = d.output
           /\ pc' = "calc"
           /\ UNCHANGED outcome
    /\ UNCHANGED << overflow_checks, input, target_string, tokens, error, token_list,
                    calculate_stack, printed, saved >>

\* The tokens are used up: the rest of the stack goes to the output, and
\* convert_to_rpn returns.
convert_return ==
    /\ pc = "convert"
    /\ token_list = << >>
    /\ LET d == DrainStack(stack, output)
       IN  /\ stack' = d.stack
           /\ output' = d.output
           /\ IF d.failed
              THEN pc' = "done" /\ outcome' = Err("drain", MsgOpenedLeft)
              ELSE pc' = "calc" /\ UNCHANGED outcome
    /\ UNCHANGED << overflow_checks, input, target_string, tokens, error, token_list,
                    calculate_stack, printed, saved >>

-----------------------------------------------------------------------------
(* calc_and_print, lines 254-299. *)

\* the operand lexemes whose value the model follows
Followed(tok) ==
    /\ Representable(tok.value)
    /\ ParseF32(tok.value).m <= MaxMagnitude

Result(text) == [type |-> "NumberFloat", value |-> text]

\* a faulty variant: the function takes its argument off the operand stack
function_arm_pops(cs) == StackPop(cs)

\* the arm of a Function token, lines 279-280: it is empty
function_arm(cs) == cs

\* One pass of "while !output.is_empty()".
calc_step ==
    /\ pc = "calc"
    /\ output # << >>
    /\ LET out == QueueFront(output)
           n == Len(calculate_stack)
       IN  /\ output' = QueueDequeue(output)
           /\ printed' = Append(printed, out.value)
           /\ CASE out.type \in {"NumberFloat", "NumberInt"} ->
                     /\ calculate_stack' = StackPush(calculate_stack, out)
                     /\ pc' = "calc"
                     /\ UNCHANGED outcome
                [] out.type = "BinaryOperator" ->
                     IF n >= 2
                     THEN LET arg2 == calculate_stack[n]
                              arg1 == calculate_stack[n - 1]
                              res == calc_binary_operator(out.value, arg1, arg2)
                          IN  /\ Followed(arg1) /\ Followed(arg2)
                              /\ ~res.big
                              /\ IF res.panic
                                 THEN /\ pc' = "panic"
                                      /\ calculate_stack' = SubSeq(calculate_stack, 1, n - 2)
                                 ELSE /\ pc' = "calc"
                                      /\ calculate_stack' =
                                             StackPush(SubSeq(calculate_stack, 1, n - 2),
                                                       Result(res.text))
                              /\ UNCHANGED outcome
                     ELSE /\ calculate_stack' = << >>
                          /\ pc' = "done"
                          /\ outcome' = Err("operator", MsgQueue)
                [] out.type = "UnaryOperator" ->
                     IF n >= 1
                     THEN /\ Followed(calculate_stack[n])
                          /\ calculate_stack' =
                                 StackPush(StackPop(calculate_stack),
                                           Result(calc_unary_operator(out.value,
                                                                      calculate_stack[n])))
                          /\ pc' = "calc"
                          /\ UNCHANGED outcome
                     ELSE /\ pc' = "done"
                          /\ outcome' = Err("operator", MsgQueue)
                          /\ UNCHANGED calculate_stack
                [] out.type = "Function" ->
                     /\ pc' = "calc"
                     /\ calculate_stack' = function_arm(calculate_stack)
                     /\ UNCHANGED outcome
                [] OTHER ->
                     /\ pc' = "done"
                     /\ outcome' = Err("kind", MsgQueue)
                     /\ UNCHANGED calculate_stack
    /\ UNCHANGED << overflow_checks, input, target_string, tokens, error, token_list,
                    stack, saved >>

\* The queue is used up: lines 287-298, and process returns.
calc_return ==
    /\ pc = "calc"
    /\ output = << >>
    /\ pc' = "done"
    /\ IF calculate_stack = << >>
       THEN outcome' = Err("empty", MsgEmpty) /\ UNCHANGED calculate_stack
       ELSE LET result == StackPeek(calculate_stack)
            IN  /\ calculate_stack' = StackPop(calculate_stack)
                /\ outcome' = IF calculate_stack' # << >> \/ result.type # "NumberFloat"
                              THEN Err("leftover", MsgEmpty)
                              ELSE Ok(result.value)
    /\ UNCHANGED << overflow_checks, input, target_string, tokens, error, token_list,
                    stack, output, printed, saved >>

-----------------------------------------------------------------------------
(* The input lines of the specifications. *)

\* the characters of the lines of Spec: a digit, a sign, a shift, the
\* parentheses, a character no pattern knows, and white space
Alphabet == {"2", "-", "<", "(", ")", "?", "\t", " "}

\* the characters of the lines of SpecWords: what expressions are written with
WordAlphabet == {"2", "+", "-", "(", ")", ".", "a", ","}

Lines(chars, n) == UNION { [1..k -> chars] : k \in 0..n }

\* the operands and operators of the generated chains
ChainLiterals == { << "2" >>, << "3" >>, << "4" >> }
ChainOperators == { << "+" >>, << "-" >>, << "*" >>, << "/" >>, << "<", "<" >>, << ">", ">" >> }

RECURSIVE Chain(_, _, _)
\* lits[1] ops[1] lits[2] ... lits[n]
Chain(lits, ops, n) ==
    IF n = 1 THEN lits[1]
    ELSE Chain(lits, ops, n - 1) \o ops[n - 1] \o lits[n]

\* the lines of SpecChain: [-] a op b op c ...
ChainLines ==
    UNION { { (IF lead THEN << "-" >> ELSE << >>) \o Chain(lits, ops, n) :
                lead \in BOOLEAN, lits \in [1..n -> ChainLiterals],
                ops \in [1..(n - 1) -> ChainOperators] } : n \in 1..MaxOperands }

\* the characters of the lines of FairSpec: a digit, a sign, a shift and a
\* character no pattern knows
FairAlphabet == {"2", "-", "<", "?"}

\* the characters of the lines of SpecIdem
IdemAlphabet == {"2", "-", "?", ")"}

-----------------------------------------------------------------------------
(* The specifications. *)

Init ==
    /\ pc = "idle"
    /\ overflow_checks \in BOOLEAN
    /\ input = << >>
    /\ target_string = << >>
    /\ tokens = << >>
    /\ error = FALSE
    /\ token_list = << >>
    /\ stack = << >>
    /\ output = << >>
    /\ calculate_stack = << >>
    /\ printed = << >>
    /\ outcome = NoOutcome
    /\ saved = << >>

\* main's loop reads a line and calls process
main_loop ==
    /\ pc = "idle"
    /\ \E line \in Lines(Alphabet, MaxLen) :
           process_call(line) /\ UNCHANGED saved

main_loop_words ==
    /\ pc = "idle"
    /\ \E line \in Lines(WordAlphabet, MaxLen) :
           process_call(line) /\ UNCHANGED saved

main_loop_chain ==
    /\ pc = "idle"
    /\ \E line \in ChainLines :
           process_call(line) /\ UNCHANGED saved

main_loop_fair ==
    /\ pc = "idle"
    /\ \E line \in Lines(FairAlphabet, MaxFairLen) :
           process_call(line) /\ UNCHANGED saved

\* process has returned and main goes round its loop: the locals of the
\* call are gone, the next line is read into a new String
request_to_continue ==
    /\ pc = "done"
    /\ pc' = "idle"
    /\ input' = << >>
    /\ target_string' = << >>
    /\ tokens' = << >>
    /\ error' = FALSE
    /\ token_list' = << >>
    /\ stack' = << >>
    /\ output' = << >>
    /\ calculate_stack' = << >>
    /\ printed' = << >>
    /\ outcome' = NoOutcome
    /\ UNCHANGED << overflow_checks, saved >>

\* main's loop with the record of an earlier call: a finished call may be
\* remembered, once, to be compared with a later call on the same line
main_loop_idem ==
    /\ \E line \in Lines(IdemAlphabet, MaxIdemLen) : process_call(line)
    /\ \/ UNCHANGED saved
       \/ /\ pc = "done" /\ saved = << >>
          /\ saved' = << [input |-> input, outcome |-> outcome, printed |-> printed] >>

Stages ==
    \/ tokerize_pass
    \/ tokerize_return
    \/ convert_step
    \/ convert_return
    \/ calc_step
    \/ calc_return

Next == main_loop \/ request_to_continue \/ Stages

Spec == Init /\ [][Next]_vars

\* process runs to its end once called: the three stages are sequential code
\* that waits for nothing (main's loop, which waits for a line, is not forced)
NextFair == main_loop_fair \/ request_to_continue \/ Stages

FairSpec == Init /\ [][NextFair]_vars /\ WF_vars(Stages)

NextChain == main_loop_chain \/ request_to_continue \/ Stages

SpecChain == Init /\ [][NextChain]_vars

NextIdem == main_loop_idem \/ Stages

SpecIdem == Init /\ [][NextIdem]_vars

NextWords == main_loop_words \/ request_to_continue \/ Stages

SpecWords == Init /\ [][NextWords]_vars

-----------------------------------------------------------------------------
(* The direct evaluation of an operator chain, the reference of C1.        *)

RECURSIVE ChainItems(_)
\* the operands (as tokens) and operators of the text of a chain, in order
ChainItems(s) ==
    IF s = << >> THEN << >>
    ELSE IF s[1] \in Digits
    THEN LET n == PrefixLen(s, Digits \cup {"."})
         IN  << [type |-> "NumberFloat", value |-> SubSeq(s, 1, n)] >> \o ChainItems(Drop(s, n))
    ELSE IF s[1] \in {"<", ">"}
    THEN << SubSeq(s, 1, 2) >> \o ChainItems(Drop(s, 2))
    ELSE << SubSeq(s, 1, 1) >> \o ChainItems(Drop(s, 1))

RECURSIVE ReduceRank(_, _)
\* items with every operator of the given rank applied, left to right
ReduceRank(items, rank) ==
    LET at == { i \in 1..Len(items) : i % 2 = 0 /\ get_op_info(items[i]).order = rank }
    IN  IF at = {} THEN items
        ELSE LET i == CHOOSE k \in at : \A q \in at : k <= q
                 r == calc_binary_operator(items[i], items[i - 1], items[i + 1])
             IN  ReduceRank(SubSeq(items, 1, i - 2) \o << Result(r.text) >> \o
                            Drop(items, i + 1), rank)

\* the value of [-] a op b op c ...: the sign belongs to a, then the ranks
\* 2, 3 and 4 are applied in turn
DirectEval(line) ==
    LET lead == line # << >> /\ line[1] = "-"
        items == ChainItems(IF lead THEN Tail(line) ELSE line)
        first == IF lead THEN Result(calc_unary_operator(NEG, items[1])) ELSE items[1]
        all == << first >> \o Tail(items)
    IN  ParseF32(ReduceRank(ReduceRank(ReduceRank(all, 2), 3), 4)[1].value)

-----------------------------------------------------------------------------
(* The claims. *)

\* tokerize has returned Ok: tokens is the sequence it returned
TokerizeOk == pc \in {"convert", "calc", "done"} /\ outcome.at # "tokerize"

\* convert_to_rpn has just returned Ok: output is the queue it returned
ConvertOk == pc = "calc" /\ printed = << >> /\ calculate_stack = << >>

\* C1: every valid infix expression is processed successfully and the value
\* returned is the value of the expression under the operator table's
\* precedence and associativity, the unary sign binding tightest.  Checked on
\* the operator chains of SpecChain, all of which are valid.
ValidExpressionEvaluates ==
    /\ pc # "panic"
    /\ pc = "done" => outcome.ok /\ ParseF32(outcome.text) = DirectEval(input)

\* C2: no stage of process reaches a crash: no failed unwrap, no failed
\* prefix strip, no out-of-range shift, for any input line.
NoCrash == pc # "panic"

SignTokens(toks) ==
    { i \in 1..Len(toks) :
        \/ toks[i].type = "UnaryOperator"
        \/ (toks[i].type = "BinaryOperator" /\ toks[i].value \in { << "+" >>, << "-" >> }) }

RECURSIVE SignsOfText(_)
\* the '+' and '-' of a text, in order
SignsOfText(s) ==
    IF s = << >> THEN << >>
    ELSE (IF Head(s) \in {"+", "-"} THEN << Head(s) >> ELSE << >>) \o SignsOfText(Tail(s))

RECURSIVE SignsOfTokens(_)
\* the '+' and '-' the sign tokens stand for, in order
SignsOfTokens(toks) ==
    IF toks = << >> THEN << >>
    ELSE (CASE Head(toks).value \in { << "+" >>, POS } -> << "+" >>
            [] Head(toks).value \in { << "-" >>, NEG } -> << "-" >>
            [] OTHER -> << >>) \o SignsOfTokens(Tail(toks))

NoWhitespaceTokens ==
    pc = "convert" => \A i \in 1..Len(token_list) : token_list[i].type # "Whitespaces"

\* C5 as claimed: the error of a closing parenthesis without an opening one
\* and the error of an opening parenthesis left at the end of the input are
\* distinguishable.
ParenthesisErrorsDistinct ==
    /\ outcome.at = "closed" => outcome.msg # MsgOpenedLeft
    /\ outcome.at = "drain" => outcome.msg # MsgClosedUnmatched

HasOpened(st) == \E i \in 1..Len(st) : st[i].type = "OpenedParenthesis"

\* C5 as amended: a closing parenthesis met when the stack holds no opening
\* one makes convert_to_rpn fail, an opening parenthesis on the stack at the
\* end of the input makes it fail, and both failures carry one and the same
\* missing-parenthesis message.
ParenthesisErrorsAlike ==
    [][ /\ ( /\ pc = "convert" /\ token_list # << >>
             /\ Head(token_list).type = "ClosedParenthesis" /\ ~HasOpened(stack) )
           => ( /\ pc' = "done" /\ ~outcome'.ok
                /\ outcome'.msg = "v vyrazhenii propushchena skobka" )
        /\ ( pc = "convert" /\ token_list = << >> /\ HasOpened(stack) )
           => ( /\ pc' = "done" /\ ~outcome'.ok
                /\ outcome'.msg = "v vyrazhenii propushchena skobka" ) ]_vars

\* a line such as "(2": the failure at the end of the input, with the message
\* the closing parenthesis' failure has
ParenthesisErrorsAlikeWitness ==
    /\ pc = "done"
    /\ outcome.at = "drain"
    /\ outcome.msg = MsgClosedUnmatched
    /\ HasOpened(stack)

IsNumber(tok) == tok.type \in {"NumberInt", "NumberFloat"}

\* tokens is a op1 b op2 c
ThreeOperandChain ==
    /\ Len(tokens) = 5
    /\ IsNumber(tokens[1]) /\ IsNumber(tokens[3]) /\ IsNumber(tokens[5])
    /\ tokens[2].type = "BinaryOperator" /\ tokens[4].type = "BinaryOperator"

\* C6: for a op1 b op2 c without parentheses the queue convert_to_rpn returns
\* is a b c op2 op1 when op2 has the lower rank, and a b op1 c op2 when the
\* ranks are equal or op1 has the lower rank.
ChainRespectsRanks ==
    ConvertOk /\ ThreeOperandChain =>
        LET a == tokens[1]
            op1 == tokens[2]
            b == tokens[3]
            op2 == tokens[4]
            c == tokens[5]
        IN  IF get_op_info(op2.value).order < get_op_info(op1.value).order
            THEN output = << a, b, c, op2, op1 >>
            ELSE output = << a, b, op1, c, op2 >>

\* the line "2+3*4", whose queue is 2 3 4 * +
ChainRespectsRanksWitness ==
    /\ ConvertOk /\ ThreeOperandChain
    /\ input = << "2", "+", "3", "*", "4" >>
    /\ output = << tokens[1], tokens[3], tokens[5], tokens[4], tokens[2] >>

\* C7: tokerize returns Ok exactly when the scan reaches the end of the
\* input, and otherwise it returns Err(c), c being the first character of the
\* remainder the scan is stuck at; it does nothing else.
TokerizeOkOrErr ==
    /\ ~(pc = "panic" /\ printed = << >>)
    /\ TokerizeOk => target_string = << >>
    /\ outcome.at = "tokerize" =>
          /\ target_string # << >>
          /\ outcome.text = << Head(target_string) >>

\* C8: with the queue used up, calc_and_print succeeds, with the value left,
\* exactly when one token is left on the operand stack and it is a numeric
\* literal, integer or float; in every other case it fails.
FinalStackDecides ==
    [][ (pc = "calc" /\ output = << >>) =>
           /\ outcome'.ok = ( /\ Len(calculate_stack) = 1
                              /\ IsNumber(calculate_stack[1]) )
           /\ outcome'.ok => outcome'.text = calculate_stack[1].value ]_vars

\* C9: after convert_to_rpn has succeeded on tokens of tokerize,
\* calc_and_print does not fail (stated for the lines that have a token).
NoEvaluationError ==
    tokens # << >> => outcome.at \notin {"operator", "kind", "empty", "leftover"}

\* C10: a call of process on a line gives the outcome and the output that an
\* earlier call on the same line gave, whatever calls came between.
SameLineSameOutcome ==
    (pc = "done" /\ saved # << >> /\ saved[1].input = input) =>
        /\ saved[1].outcome = outcome
        /\ saved[1].printed = printed

\* a line processed a second time, successfully
SameLineSameOutcomeWitness ==
    /\ pc = "done" /\ saved # << >> /\ saved[1].input = input
    /\ outcome.ok /\ printed # << >>

ShiftOperators == { << "<", "<" >>, << ">", ">" >> }

\* C11: for '<<' and '>>' the evaluator truncates both operands toward zero to
\* 32-bit integers, shifts the left one by the right one and pushes that
\* integer, printed with two decimals; this is so for every pair of operands
\* the evaluator supplies, so the step never ends the program.
ShiftDefined ==
    [][ ( /\ pc = "calc" /\ output # << >>
          /\ Head(output).type = "BinaryOperator"
          /\ Head(output).value \in ShiftOperators
          /\ Len(calculate_stack) >= 2 )
        => LET n == Len(calculate_stack)
               x == AsI32(ParseF32(calculate_stack[n - 1].value))
               s == AsI32(ParseF32(calculate_stack[n].value))
               shifted == IF Head(output).value = << "<", "<" >>
                          THEN x * Pow2(s) ELSE x \div Pow2(s)
           IN  /\ pc' = "calc"
               /\ s \in 0..(I32Bits - 1) =>
                     StackPeek(calculate_stack') = Result(FormatF32(AsF32(shifted))) ]_vars

\* the text of the line a token stands for
SourceOf(tok) ==
    IF tok.type # "UnaryOperator" THEN tok.value
    ELSE IF tok.value = POS THEN << "+" >> ELSE << "-" >>

RECURSIVE SourceText(_)
SourceText(toks) ==
    IF toks = << >> THEN << >> ELSE SourceOf(Head(toks)) \o SourceText(Tail(toks))

\* C12: every token tokerize pushes is matched at the scan position and the
\* cursor moves past exactly that text: at every moment the texts of the
\* tokens pushed so far, followed by the unconsumed remainder, are the input
\* (white space removed as process removes it), so on success the tokens'
\* texts concatenated are the input.
TokensCoverInput ==
    pc # "idle" => SourceText(tokens) \o target_string = Trimmed(input)

\* the text a pattern matches at the very start of s: as Captures, with the
\* shift alternatives of the binary pattern held to the start as well
MatchAtStart(type, s) ==
    IF type # "BinaryOperator" THEN Captures(type, s)
    ELSE IF s # << >> /\ s[1] \in {"+", "-", "/", "*"} THEN << s[1] >>
    ELSE IF Len(s) >= 2 /\ s[1] = s[2] /\ s[1] \in {"<", ">"} THEN << s[1], s[2] >>
    ELSE << >>

RECURSIVE FirstMatch(_, _, _)
\* the first pattern, from pattern i on, that matches at the start of s; a
\* binary operator matches only after a number or a closing parenthesis
FirstMatch(i, toks, s) ==
    IF i > Len(KNOWNS_TOKENS) THEN None
    ELSE LET type == KNOWNS_TOKENS[i]
             text == MatchAtStart(type, s)
         IN  IF text = << >>
             THEN FirstMatch(i + 1, toks, s)
             ELSE IF /\ type = "BinaryOperator"
                     /\ (toks = << >> \/ toks[Len(toks)].type \notin
                                           {"NumberFloat", "NumberInt", "ClosedParenthesis"})
             THEN FirstMatch(i + 1, toks, s)
             ELSE [some |-> TRUE, type |-> type, text |-> text]

RECURSIVE ReferenceScan(_, _)
\* the scanner that restarts from the top of the pattern list at every
\* position: [ok, tokens, ch]
ReferenceScan(toks, s) ==
    IF s = << >> THEN [ok |-> TRUE, tokens |-> toks, ch |-> ""]
    ELSE LET m == FirstMatch(1, toks, s)
         IN  IF ~m.some THEN [ok |-> FALSE, tokens |-> toks, ch |-> s[1]]
             ELSE ReferenceScan(
                      Append(toks, [type |-> m.type,
                                    value |-> IF m.type = "UnaryOperator"
                                              THEN UnaryName(m.text) ELSE m.text]),
                      Drop(s, Len(m.text)))

\* the program has ended inside tokerize
TokerizePanicked == pc = "panic" /\ output = << >> /\ printed = << >>

\* C13: tokerize, which goes on with the rest of the pattern list after a
\* match, returns for every input what the restarting reference scanner
\* returns: the same tokens, or the same offending character.
SameAsReferenceScanner ==
    LET ref == ReferenceScan(<< >>, Trimmed(input))
    IN  /\ ~TokerizePanicked
        /\ TokerizeOk => ref.ok /\ ref.tokens = tokens
        /\ outcome.at = "tokerize" => ~ref.ok /\ outcome.text = << ref.ch >>

\* how many of the first n tokens of seq are numbers
NumbersUpTo(seq, n) == Cardinality({ p \in 1..n : IsNumber(seq[p]) })

\* C14: a unary sign applies to the operand right after it: convert_to_rpn
\* puts the sign into the queue directly behind that operand, hence before
\* every later binary operator (all of which have a higher rank number).
\* Stated for a sign that stands before a numeric literal.
UnaryBindsTightest ==
    ConvertOk =>
        \A i \in 1..(Len(tokens) - 1) :
            (tokens[i].type = "UnaryOperator" /\ IsNumber(tokens[i + 1])) =>
                \E j \in 1..(Len(output) - 1) :
                    /\ IsNumber(output[j])
                    /\ NumbersUpTo(output, j) = NumbersUpTo(tokens, i + 1)
                    /\ output[j + 1] = tokens[i]

\* the tokens convert_to_rpn hands on: numbers, operators and functions
Emitted(tok) ==
    tok.type \in {"NumberInt", "NumberFloat", "UnaryOperator", "BinaryOperator", "Function"}

Count(seq, t) == Cardinality({ i \in 1..Len(seq) : seq[i] = t })

SameMultiset(a, b) ==
    /\ Len(a) = Len(b)
    /\ \A i \in 1..Len(a) : Count(a, a[i]) = Count(b, a[i])

\* the position of the topmost opening parenthesis of a stack that has one
TopOpened(st) ==
    CHOOSE k \in 1..Len(st) :
        /\ st[k].type = "OpenedParenthesis"
        /\ \A q \in (k + 1)..Len(st) : st[q].type # "OpenedParenthesis"

\* st[k + 1 .. Len(st)] from the top down
AboveFromTop(st, k) == [ i \in 1..(Len(st) - k) |-> st[Len(st) + 1 - i] ]

\* C15: the queue convert_to_rpn returns holds no parenthesis and no
\* separator; it holds the number, operator and function tokens of the input,
\* each as often as the input has it, the numbers in the input's order.  A
\* closing parenthesis moves the operators above the matching opening one to
\* the queue and, if a function stands below that parenthesis, the function
\* directly behind them.
QueueKeepsTokens ==
    [][ /\ ConvertOk' =>
              /\ \A j \in 1..Len(output') : Emitted(output'[j])
              /\ SameMultiset(output', SelectSeq(tokens', Emitted))
              /\ SelectSeq(output', IsNumber) = SelectSeq(tokens', IsNumber)
        /\ ( /\ pc = "convert" /\ token_list # << >>
             /\ Head(token_list).type = "ClosedParenthesis" /\ HasOpened(stack) )
           => LET k == TopOpened(stack)
                  fn == IF k > 1 /\ stack[k - 1].type = "Function"
                        THEN << stack[k - 1] >> ELSE << >>
              IN  /\ pc' = "convert"
                  /\ output' = output \o AboveFromTop(stack, k) \o fn
                  /\ stack' = SubSeq(stack, 1, k - 1 - Len(fn)) ]_vars

\* a line such as "a(2)": the queue is 2 a, the parentheses are gone
QueueKeepsTokensWitness ==
    /\ ConvertOk
    /\ Len(tokens) = 4
    /\ tokens[1].type = "Function"
    /\ tokens[2].type = "OpenedParenthesis"
    /\ tokens[4].type = "ClosedParenthesis"
    /\ Len(output) = 2
    /\ IsNumber(output[1])
    /\ output[2].type = "Function"

\* C16: in calc_and_print a binary operator takes two operands off the
\* stack, the top one as its right-hand and the one below as its left-hand
\* operand, and pushes one NumberFloat result; a unary operator takes one and
\* pushes one; with fewer operands than the operator needs the evaluation
\* fails with the queue error and yields no result.
OperatorsPopAndPush ==
    [][ (pc = "calc" /\ output # << >>) =>
           LET out == Head(output)
               n == Len(calculate_stack)
           IN  /\ out.type = "BinaryOperator" =>
                     IF n >= 2
                     THEN /\ pc' = "calc"
                          /\ Len(calculate_stack') = n - 1
                          /\ SubSeq(calculate_stack', 1, n - 2) = SubSeq(calculate_stack, 1, n - 2)
                          /\ calculate_stack'[n - 1] =
                                 [type |-> "NumberFloat",
                                  value |-> calc_binary_operator(out.value, calculate_stack[n - 1],
                                                                 calculate_stack[n]).text]
                     ELSE /\ pc' = "done"
                          /\ ~outcome'.ok
                          /\ outcome'.msg = "Vyhodnaya ochered sformirovana nepravilno"
               /\ out.type = "UnaryOperator" =>
                     IF n >= 1
                     THEN /\ pc' = "calc"
                          /\ Len(calculate_stack') = n
                          /\ SubSeq(calculate_stack', 1, n - 1) = SubSeq(calculate_stack, 1, n - 1)
                          /\ calculate_stack'[n] =
                                 [type |-> "NumberFloat",
                                  value |-> calc_unary_operator(out.value, calculate_stack[n])]
                     ELSE /\ pc' = "done"
                          /\ ~outcome'.ok
                          /\ outcome'.msg = "Vyhodnaya ochered sformirovana nepravilno" ]_vars

\* C17: in calc_and_print a Function token leaves the operand stack as it
\* is and is no error: the token is taken off the queue, its lexeme is
\* printed, and the loop goes on.
FunctionLeavesStack ==
    [][ (pc = "calc" /\ output # << >> /\ Head(output).type = "Function") =>
           /\ calculate_stack' = calculate_stack
           /\ pc' = "calc"
           /\ outcome' = outcome
           /\ output' = Tail(output)
           /\ printed' = Append(printed, Head(output).value) ]_vars

\* a line such as "a2" or "a(2)": the function has been taken off the queue, its
\* argument is still on the operand stack
FunctionLeavesStackWitness ==
    /\ pc = "calc"
    /\ printed # << >>
    /\ printed[Len(printed)] = << "a" >>
    /\ calculate_stack # << >>
    /\ \E i \in 1..Len(tokens) : tokens[i] = [type |-> "Function", value |-> << "a" >>]

\* the evaluator stands at an operator whose operands or result lie outside
\* the values the model follows (see Followed and MaxMagnitude)
Unfollowed ==
    /\ pc = "calc" /\ output # << >>
    /\ LET out == Head(output)
           n == Len(calculate_stack)
       IN  IF out.type = "BinaryOperator" /\ n >= 2
           THEN IF Followed(calculate_stack[n - 1]) /\ Followed(calculate_stack[n])
                THEN calc_binary_operator(out.value, calculate_stack[n - 1],
                                          calculate_stack[n]).big
                ELSE TRUE
           ELSE IF out.type = "UnaryOperator" /\ n >= 1
           THEN ~Followed(calculate_stack[n])
           ELSE FALSE

\* one step of a loop of a stage: what it uses up and what it may add
LoopsProgress ==
    /\ (pc = "tokerize" /\ pc' = "tokerize") =>
           /\ ~error
           /\ Len(target_string') < Len(target_string) \/ error'
    /\ (pc = "convert" /\ pc' = "convert") =>
           /\ Len(token_list') < Len(token_list)
           /\ Len(stack') + Len(output') <= Len(stack) + Len(output) + 1
    /\ (pc = "calc" /\ pc' = "calc") =>
           /\ Len(output') < Len(output)
           /\ Len(calculate_stack') <= Len(calculate_stack) + 1

\* what the stacks and queues can hold: no more than was pushed
PopsBoundedByPushes ==
    /\ pc = "convert" => Len(stack) + Len(output) + Len(token_list) <= Len(tokens)
    /\ pc = "calc" => Len(calculate_stack) + Len(output) <= Len(tokens)

\* C18: tokerize ends on every input: a pass of its loop shortens the
\* remainder or sets the error flag, and the flag ends the loop; likewise
\* every step of convert_to_rpn uses up a token and every step of
\* calc_and_print a queue element, their stacks holding no more than was
\* pushed; so each stage, once entered, is left (the end of the program
\* by a crash counts as an end).
StagesTerminate ==
    /\ [][LoopsProgress]_vars
    /\ [] PopsBoundedByPushes
    /\ (pc = "tokerize") ~> (pc \in {"convert", "done", "panic"})
    /\ (pc = "convert") ~> (pc \in {"calc", "done", "panic"})
    /\ (pc = "calc") ~> (pc \in {"done", "panic"} \/ Unfollowed)

\* a line such as "2-2": all three loops have run and process has returned
StagesTerminateWitness ==
    /\ pc = "done"
    /\ outcome.ok
    /\ Len(tokens) >= 3
    /\ Len(printed) = Len(tokens)
    /\ \A i \in 1..Len(printed) : printed[i] # WarnLine
    /\ target_string = << >> /\ token_list = << >> /\ output = << >>

\* what is printed is a lexeme of the RPN trace, or the line of line 205
IsLexeme(x) == x # WarnLine

\* C19: the stages of process run in the order lexer, converter, evaluator,
\* each started only after the one before has succeeded, and nothing runs
\* after process has returned; the RPN trace is printed by the evaluator
\* alone.  So when tokerize or convert_to_rpn fails, no lexeme of the trace
\* has been printed, there is no result, and process returns one diagnostic,
\* the only one for the line.
StagesInOrder ==
    [][ /\ pc' = "tokerize" => pc \in {"idle", "tokerize"}
        /\ pc' = "convert" =>
              \/ pc = "convert"
              \/ pc = "tokerize" /\ target_string = << >> /\ ~error
        /\ pc' = "calc" =>
              \/ pc = "calc"
              \/ pc = "convert" /\ token_list = << >> /\ ~HasOpened(stack)
        /\ pc = "done" => pc' = "idle"
        /\ (pc # "calc" /\ pc' \notin {"idle", "tokerize"}) =>
              SelectSeq(printed', IsLexeme) = SelectSeq(printed, IsLexeme)
        /\ (pc \in {"tokerize", "convert"} /\ pc' = "done") =>
              /\ SelectSeq(printed', IsLexeme) = << >>
              /\ outcome = NoOutcome
              /\ ~outcome'.ok
              /\ outcome'.msg # "" ]_vars

\* a line such as "2)" or "-)": convert_to_rpn has failed with a token
\* already in its queue, and nothing of the queue has been printed
StagesInOrderWitness ==
    /\ pc = "done"
    /\ ~outcome.ok
    /\ outcome.msg = MsgClosedUnmatched
    /\ output # << >>
    /\ SelectSeq(printed, IsLexeme) = << >>
    /\ calculate_stack = << >>

====
